---- MODULE Spec2Model ----
(***************************************************************************)
(* ETHANI backend: the rule-based price calculator (app/pricing.py), the   *)
(* v1 pricing endpoint (app/main.py) and the contract integration layer    *)
(* with its fallback chain (app/blockchain.py).                            *)
(*                                                                         *)
(* Python's float is an IEEE-754 binary64.  The prices the code returns    *)
(* depend on how products such as 100 * 1.15 round (114.99999999999999,    *)
(* which int() truncates to 114), so floats are modelled exactly: a float  *)
(* is a record [m, e] standing for m * 2^e, m an arbitrary-precision       *)
(* natural kept as a little-endian sequence of 15-bit limbs, and every     *)
(* float operation rounds its exact result to 53 bits, ties to even.       *)
(***************************************************************************)
EXTENDS Integers, Sequences, FiniteSets, TLC

(***************************************************************************)
(* Arbitrary-precision naturals (TLC integers are 32 bits wide).           *)
(***************************************************************************)
LimbBits == 15
Limb == 2^LimbBits
\* significand width of a binary64
MantissaBits == 53

RECURSIVE BigNorm(_)
BigNorm(a) ==
    IF a = <<>> THEN <<>>
    ELSE IF a[Len(a)] = 0 THEN BigNorm(SubSeq(a, 1, Len(a) - 1))
    ELSE a

RECURSIVE BigFromInt(_)
BigFromInt(n) ==
    IF n = 0 THEN <<>> ELSE <<n % Limb>> \o BigFromInt(n \div Limb)

RECURSIVE BigToInt(_)
BigToInt(a) ==
    IF a = <<>> THEN 0 ELSE Head(a) + Limb * BigToInt(Tail(a))

\* a * k + c for a small k (k, c < Limb)
RECURSIVE BigMulSmall(_, _, _)
BigMulSmall(a, k, c) ==
    IF a = <<>> THEN BigFromInt(c)
    ELSE LET t == Head(a) * k + c
         IN  <<t % Limb>> \o BigMulSmall(Tail(a), k, t \div Limb)

RECURSIVE BigAddC(_, _, _)
BigAddC(a, b, c) ==
    IF a = <<>> /\ b = <<>> THEN BigFromInt(c)
    ELSE LET x == IF a = <<>> THEN 0 ELSE Head(a)
             y == IF b = <<>> THEN 0 ELSE Head(b)
             t == x + y + c
         IN  <<t % Limb>> \o BigAddC(IF a = <<>> THEN <<>> ELSE Tail(a),
                                      IF b = <<>> THEN <<>> ELSE Tail(b),
                                      t \div Limb)

BigAdd(a, b) == BigAddC(a, b, 0)

RECURSIVE BigMul(_, _)
BigMul(a, b) ==
    IF a = <<>> \/ b = <<>> THEN <<>>
    ELSE BigNorm(BigAdd(BigMulSmall(a, Head(b), 0), <<0>> \o BigMul(a, Tail(b))))

\* quotient and remainder of a by a small k (0 < k < Limb)
RECURSIVE BigDivSmall(_, _)
BigDivSmall(a, k) ==
    IF a = <<>> THEN [q |-> <<>>, r |-> 0]
    ELSE LET rest == BigDivSmall(Tail(a), k)
             cur  == rest.r * Limb + Head(a)
         IN  [q |-> BigNorm(<<cur \div k>> \o rest.q), r |-> cur % k]

\* -1, 0, 1 as a < b, a = b, a > b (both without leading zero limbs)
RECURSIVE BigCmp(_, _)
BigCmp(a, b) ==
    IF Len(a) < Len(b) THEN -1
    ELSE IF Len(a) > Len(b) THEN 1
    ELSE IF a = <<>> THEN 0
    ELSE IF a[Len(a)] < b[Len(b)] THEN -1
    ELSE IF a[Len(a)] > b[Len(b)] THEN 1
    ELSE BigCmp(BigNorm(SubSeq(a, 1, Len(a) - 1)), BigNorm(SubSeq(b, 1, Len(b) - 1)))

RECURSIVE SmallBitLen(_)
SmallBitLen(n) == IF n = 0 THEN 0 ELSE 1 + SmallBitLen(n \div 2)

BigBitLen(a) ==
    IF a = <<>> THEN 0 ELSE LimbBits * (Len(a) - 1) + SmallBitLen(a[Len(a)])

BigIsOdd(a) == a # <<>> /\ Head(a) % 2 = 1

\* a * 2^t
BigShiftLeft(a, t) ==
    IF a = <<>> THEN <<>>
    ELSE [i \in 1..(t \div LimbBits) |-> 0] \o BigMulSmall(a, 2^(t % LimbBits), 0)

\* floor(a / 2^t)
BigShiftRight(a, t) ==
    IF t \div LimbBits >= Len(a) THEN <<>>
    ELSE BigDivSmall(SubSeq(a, (t \div LimbBits) + 1, Len(a)), 2^(t % LimbBits)).q

\* TRUE iff the t lowest bits of a are all zero
BigLowBitsZero(a, t) ==
    /\ \A i \in 1..(t \div LimbBits) : i > Len(a) \/ a[i] = 0
    /\ \/ (t \div LimbBits) + 1 > Len(a)
       \/ a[(t \div LimbBits) + 1] % (2^(t % LimbBits)) = 0

\* a / 2^t rounded to the nearest natural, ties to even
BigRoundShift(a, t) ==
    IF t = 0 THEN a
    ELSE LET h      == BigShiftRight(a, t - 1)
             q      == BigShiftRight(h, 1)
             sticky == ~BigLowBitsZero(a, t - 1)
             up     == BigIsOdd(h) /\ (sticky \/ BigIsOdd(q))
         IN  IF up THEN BigNorm(BigAdd(q, <<1>>)) ELSE q

(***************************************************************************)
(* IEEE-754 binary64 values that are >= 0: [m, e] is m * 2^e.              *)
(***************************************************************************)
FloatRound(m, e) ==
    IF BigBitLen(m) <= MantissaBits THEN [m |-> m, e |-> e]
    ELSE [m |-> BigRoundShift(m, BigBitLen(m) - MantissaBits),
          e |-> e + BigBitLen(m) - MantissaBits]

FloatOfInt(n) == [m |-> BigFromInt(n), e |-> 0]

\* p / q correctly rounded (Python's int / int, and a decimal literal p/q)
DivPrecision == 5 * LimbBits
FloatDiv(p, q) ==
    IF p = 0 THEN [m |-> <<>>, e |-> 0]
    ELSE LET d == BigDivSmall(BigShiftLeft(BigFromInt(p), DivPrecision), q)
             \* the remainder only matters as a sticky bit below the quotient
             n == BigMulSmall(d.q, 2, IF d.r = 0 THEN 0 ELSE 1)
         IN  FloatRound(n, -(DivPrecision + 1))

FloatMul(x, y) == FloatRound(BigMul(x.m, y.m), x.e + y.e)

FloatCmp(x, y) ==
    LET e0 == IF x.e < y.e THEN x.e ELSE y.e
    IN  BigCmp(BigShiftLeft(x.m, x.e - e0), BigShiftLeft(y.m, y.e - e0))

FloatGT(x, y) == FloatCmp(x, y) = 1
FloatLT(x, y) == FloatCmp(x, y) = -1

\* int(x): truncation
FloatInt(x) ==
    IF x.e >= 0 THEN BigToInt(BigShiftLeft(x.m, x.e))
    ELSE BigToInt(BigShiftRight(x.m, -x.e))

\* [mutant] int() where the code calls round()
PyRound_truncating(x) == FloatInt(x)

\* round(x): nearest integer, ties to even
PyRound(x) ==
    IF x.e >= 0 THEN BigToInt(BigShiftLeft(x.m, x.e))
    ELSE BigToInt(BigRoundShift(x.m, -x.e))

\* round(x, 2), as a number of hundredths
PyRound2(x) == PyRound([m |-> BigMulSmall(x.m, 100, 0), e |-> x.e])

(***************************************************************************)
(* Values of the model.  A season factor or a multiplier is written as a   *)
(* number of hundredths (140 is the literal 1.4); SeasonFloat gives the    *)
(* float the literal denotes.  None is Python's None, kept as a value no   *)
(* ratio or season factor can take.                                        *)
(***************************************************************************)
None == -1
TypeError == [exception |-> "TypeError"]

SeasonFloat(season_factor) == FloatDiv(season_factor, 100)

(***************************************************************************)
(* app/pricing.py                                                          *)
(***************************************************************************)
CRITICAL_SHORTAGE_THRESHOLD == FloatDiv(130, 100)
SHORTAGE_THRESHOLD == FloatDiv(110, 100)
SURPLUS_THRESHOLD == FloatDiv(80, 100)

CRITICAL_SHORTAGE_MULTIPLIER == FloatDiv(115, 100)
SHORTAGE_MULTIPLIER == FloatDiv(108, 100)
NORMAL_MULTIPLIER == FloatDiv(100, 100)
SURPLUS_MULTIPLIER == FloatDiv(90, 100)

MAX_PRICE_INCREASE == FloatDiv(150, 100)
MAX_PRICE_DECREASE == FloatDiv(70, 100)

\* [mutant] the shortage threshold compared with >= instead of >
PriceTier_inclusive(ratio) ==
    IF FloatGT(ratio, CRITICAL_SHORTAGE_THRESHOLD)
    THEN [multiplier |-> CRITICAL_SHORTAGE_MULTIPLIER,
          tier_reason |-> "Critical shortage (ratio > 1.30)"]
    ELSE IF ~FloatLT(ratio, SHORTAGE_THRESHOLD)
    THEN [multiplier |-> SHORTAGE_MULTIPLIER,
          tier_reason |-> "Shortage detected (ratio > 1.10)"]
    ELSE IF FloatLT(ratio, SURPLUS_THRESHOLD)
    THEN [multiplier |-> SURPLUS_MULTIPLIER,
          tier_reason |-> "Surplus available (ratio < 0.80)"]
    ELSE [multiplier |-> NORMAL_MULTIPLIER,
          tier_reason |-> "Balanced supply-demand (0.80-1.10)"]

\* [mutant] a surplus priced up like a critical shortage
PriceTier_raising_surplus(ratio) ==
    IF FloatGT(ratio, CRITICAL_SHORTAGE_THRESHOLD)
    THEN [multiplier |-> CRITICAL_SHORTAGE_MULTIPLIER,
          tier_reason |-> "Critical shortage (ratio > 1.30)"]
    ELSE IF FloatGT(ratio, SHORTAGE_THRESHOLD)
    THEN [multiplier |-> SHORTAGE_MULTIPLIER,
          tier_reason |-> "Shortage detected (ratio > 1.10)"]
    ELSE IF FloatLT(ratio, SURPLUS_THRESHOLD)
    THEN [multiplier |-> CRITICAL_SHORTAGE_MULTIPLIER,
          tier_reason |-> "Surplus available (ratio < 0.80)"]
    ELSE [multiplier |-> NORMAL_MULTIPLIER,
          tier_reason |-> "Balanced supply-demand (0.80-1.10)"]

\* the if/elif chain of calculate_price that picks the multiplier
PriceTier(ratio) ==
    IF FloatGT(ratio, CRITICAL_SHORTAGE_THRESHOLD)
    THEN [multiplier |-> CRITICAL_SHORTAGE_MULTIPLIER,
          tier_reason |-> "Critical shortage (ratio > 1.30)"]
    ELSE IF FloatGT(ratio, SHORTAGE_THRESHOLD)
    THEN [multiplier |-> SHORTAGE_MULTIPLIER,
          tier_reason |-> "Shortage detected (ratio > 1.10)"]
    ELSE IF FloatLT(ratio, SURPLUS_THRESHOLD)
    THEN [multiplier |-> SURPLUS_MULTIPLIER,
          tier_reason |-> "Surplus available (ratio < 0.80)"]
    ELSE [multiplier |-> NORMAL_MULTIPLIER,
          tier_reason |-> "Balanced supply-demand (0.80-1.10)"]

\* [mutant] the hard limits left out
ApplyHardLimits_missing(base_price, calculated_price, tier_reason) ==
    [calculated_price |-> calculated_price, tier_reason |-> tier_reason,
     is_capped |-> FALSE]

\* [mutant] the limits compared with >= and <= instead of > and <
ApplyHardLimits_inclusive(base_price, calculated_price, tier_reason) ==
    LET max_allowed == FloatMul(FloatOfInt(base_price), MAX_PRICE_INCREASE)
        min_allowed == FloatMul(FloatOfInt(base_price), MAX_PRICE_DECREASE)
    IN  IF ~FloatLT(calculated_price, max_allowed)
        THEN [calculated_price |-> max_allowed,
              tier_reason |-> tier_reason \o " [CAPPED at +50%]",
              is_capped |-> TRUE]
        ELSE IF ~FloatGT(calculated_price, min_allowed)
        THEN [calculated_price |-> min_allowed,
              tier_reason |-> tier_reason \o " [FLOORED at -30%]",
              is_capped |-> TRUE]
        ELSE [calculated_price |-> calculated_price,
              tier_reason |-> tier_reason,
              is_capped |-> FALSE]

\* the hard limits of calculate_price, applied to the unrounded price
ApplyHardLimits(base_price, calculated_price, tier_reason) ==
    LET max_allowed == FloatMul(FloatOfInt(base_price), MAX_PRICE_INCREASE)
        min_allowed == FloatMul(FloatOfInt(base_price), MAX_PRICE_DECREASE)
    IN  IF FloatGT(calculated_price, max_allowed)
        THEN [calculated_price |-> max_allowed,
              tier_reason |-> tier_reason \o " [CAPPED at +50%]",
              is_capped |-> TRUE]
        ELSE IF FloatLT(calculated_price, min_allowed)
        THEN [calculated_price |-> min_allowed,
              tier_reason |-> tier_reason \o " [FLOORED at -30%]",
              is_capped |-> TRUE]
        ELSE [calculated_price |-> calculated_price,
              tier_reason |-> tier_reason,
              is_capped |-> FALSE]

\* ratio and multiplier are returned rounded to two decimals (hundredths);
\* a formula string is kept as the tuple of the values it interpolates

\* the early return of calculate_price for supply <= 0
NoSupplyDecision(supply, demand, base_price, season_factor) ==
    [suggested_price |-> base_price,
     ratio |-> None,
     multiplier |-> 100,
     reason |-> "No supply available - using base price",
     is_capped |-> FALSE,
     calculations |-> [base_price |-> base_price, supply |-> supply,
                       demand |-> demand, season_factor |-> season_factor]]

\* calculate_price from the ratio on (supply > 0)
PricedDecision(supply, demand, base_price, season_factor) ==
    IF season_factor = None
    THEN TypeError   \* base_price * multiplier * None
    ELSE LET ratio   == FloatDiv(demand, supply)
             tier    == PriceTier(ratio)
             raw     == FloatMul(FloatMul(FloatOfInt(base_price), tier.multiplier),
                                 SeasonFloat(season_factor))
             limited == ApplyHardLimits(base_price, raw, tier.tier_reason)
         IN  [suggested_price |-> PyRound(limited.calculated_price),
              ratio |-> PyRound2(ratio),
              multiplier |-> PyRound2(tier.multiplier),
              reason |-> limited.tier_reason,
              is_capped |-> limited.is_capped,
              calculations |->
                  [base_price |-> base_price, supply |-> supply,
                   demand |-> demand, season_factor |-> season_factor,
                   ratio_formula |-> <<demand, supply, PyRound2(ratio)>>,
                   price_formula |-> <<base_price, PyRound2(tier.multiplier),
                                       season_factor,
                                       FloatInt(limited.calculated_price)>>]]

\* [mutant] the guard written supply < 0: supply = 0 reaches demand / supply
calculate_price_dividing_by_zero(supply, demand, base_price, season_factor) ==
    IF supply < 0
    THEN NoSupplyDecision(supply, demand, base_price, season_factor)
    ELSE IF supply = 0 THEN [exception |-> "ZeroDivisionError"]
    ELSE PricedDecision(supply, demand, base_price, season_factor)

calculate_price(supply, demand, base_price, season_factor) ==
    IF supply <= 0
    THEN NoSupplyDecision(supply, demand, base_price, season_factor)
    ELSE PricedDecision(supply, demand, base_price, season_factor)

\* [mutant] the tiers of the ratio report taken with >= and <=
get_supply_demand_ratio_inclusive(supply, demand) ==
    IF supply <= 0
    THEN [ratio |-> None, tier |-> "error",
          tier_description |-> "No supply to calculate ratio"]
    ELSE LET ratio == FloatDiv(demand, supply)
             t == IF ~FloatLT(ratio, CRITICAL_SHORTAGE_THRESHOLD)
                  THEN <<"critical_shortage", "Critical shortage - price +15%">>
                  ELSE IF ~FloatLT(ratio, SHORTAGE_THRESHOLD)
                  THEN <<"shortage", "Shortage - price +8%">>
                  ELSE IF ~FloatGT(ratio, SURPLUS_THRESHOLD)
                  THEN <<"surplus", "Surplus - price -10%">>
                  ELSE <<"balanced", "Balanced supply-demand - price baseline">>
         IN  [ratio |-> PyRound2(ratio), tier |-> t[1], tier_description |-> t[2],
              supply |-> supply, demand |-> demand]

get_supply_demand_ratio(supply, demand) ==
    IF supply <= 0
    THEN [ratio |-> None, tier |-> "error",
          tier_description |-> "No supply to calculate ratio"]
    ELSE LET ratio == FloatDiv(demand, supply)
             t == IF FloatGT(ratio, CRITICAL_SHORTAGE_THRESHOLD)
                  THEN <<"critical_shortage", "Critical shortage - price +15%">>
                  ELSE IF FloatGT(ratio, SHORTAGE_THRESHOLD)
                  THEN <<"shortage", "Shortage - price +8%">>
                  ELSE IF FloatLT(ratio, SURPLUS_THRESHOLD)
                  THEN <<"surplus", "Surplus - price -10%">>
                  ELSE <<"balanced", "Balanced supply-demand - price baseline">>
         IN  [ratio |-> PyRound2(ratio), tier |-> t[1], tier_description |-> t[2],
              supply |-> supply, demand |-> demand]

\* [mutant] the last check written supply == 0 alone: an empty market with
\* no demand is rejected as well
validate_inputs_rejecting_no_supply(supply, demand, base_price) ==
    IF base_price <= 0 THEN <<FALSE, "Base price must be positive">>
    ELSE IF supply < 0 THEN <<FALSE, "Supply cannot be negative">>
    ELSE IF demand < 0 THEN <<FALSE, "Demand cannot be negative">>
    ELSE IF supply = 0
    THEN <<FALSE, "Cannot have demand with zero supply">>
    ELSE <<TRUE, "">>

validate_inputs(supply, demand, base_price) ==
    IF base_price <= 0 THEN <<FALSE, "Base price must be positive">>
    ELSE IF supply < 0 THEN <<FALSE, "Supply cannot be negative">>
    ELSE IF demand < 0 THEN <<FALSE, "Demand cannot be negative">>
    ELSE IF supply = 0 /\ demand > 0
    THEN <<FALSE, "Cannot have demand with zero supply">>
    ELSE <<TRUE, "">>

(***************************************************************************)
(* app/models.py and app/main.py: the v1 pricing endpoint                  *)
(***************************************************************************)
\* PriceRequest: the field constraints pydantic enforces before the handler
PriceRequest(body) ==
    /\ body.supply > 0
    /\ body.demand >= 0
    /\ body.base_price > 0
    /\ body.season_factor # None =>
           (body.season_factor >= 50 /\ body.season_factor <= 200)

\* round(((suggested_price - base_price) / base_price) * 100)
AdjustmentPercent(suggested_price, base_price) ==
    LET diff == suggested_price - base_price
        mag  == PyRound(FloatMul(FloatDiv(IF diff < 0 THEN -diff ELSE diff, base_price),
                                 FloatOfInt(100)))
    IN  IF diff < 0 THEN -mag ELSE mag

tier_map(tier) ==
    CASE tier = "critical_shortage" -> 1
      [] tier = "shortage" -> 2
      [] tier = "balanced" -> 3
      [] tier = "surplus" -> 4
      [] OTHER -> 3

\* POST /api/v1/pricing/calculate (the timestamp field is left out)
calculate_price_v1(request) ==
    LET valid == validate_inputs(request.supply, request.demand, request.base_price)
    IN  IF ~valid[1] THEN [success |-> FALSE, error |-> valid[2]]
        ELSE LET result == calculate_price(request.supply, request.demand,
                                           request.base_price, request.season_factor)
             IN  IF result = TypeError
                 THEN [success |-> FALSE, error |-> "TypeError"]
                 ELSE LET ratio_result ==
                              get_supply_demand_ratio(request.supply, request.demand)
                      IN  [success |-> TRUE,
                           data |-> [final_price |-> result.suggested_price,
                                     pricing_tier |-> tier_map(ratio_result.tier),
                                     adjustment_percent |->
                                         AdjustmentPercent(result.suggested_price,
                                                           request.base_price),
                                     explanation |-> result.reason,
                                     ratio |-> ratio_result.ratio,
                                     calculation_method |-> "rule_based"]]

(***************************************************************************)
(* app/blockchain.py: ContractIntegration.                                 *)
(*                                                                         *)
(* A function's outcome is [ret, stages]: ret is the dict it returns, or   *)
(* Raise(e) when it raises e, and stages lists, in order, the price        *)
(* sources the call went through ("stylus", "solidity", "mock",            *)
(* "fallback").  net is what the remote side does during the call: whether *)
(* web3 can be imported, and for each contract whether the node answers    *)
(* is_connected(), and what calculatePrice(...).call() gives.              *)
(***************************************************************************)
Raise(e) == [ret |-> [exception |-> e], stages |-> <<>>]
Return(dict) == [ret |-> dict, stages |-> <<>>]
IsRaised(out) == "exception" \in DOMAIN out.ret
Attempt(stage, out) == [ret |-> out.ret, stages |-> <<stage>> \o out.stages]

MOCK == "mock"
REAL == "real"

\* os.getenv(name, default): Unset is a variable that is not set
Unset == "<unset>"
getenv(env, name, default) == IF env[name] = Unset THEN default ELSE env[name]

\* [mutant] a constructor that keeps the requested mode whatever is deployed
ContractIntegration_without_downgrade(mode, env) ==
    LET pricing_contract_address ==
            getenv(env, "ETHANI_PRICING_ADDRESS",
                   "0xc92fd01c122821Eb2C911d16468B20b07E25abC0")
        region_contract_address ==
            getenv(env, "ETHANI_REGION_ADDRESS",
                   "0x5836cdDE4D05B0aBDB97AE556a0b9E3971a16143")
        pricing_stylus_address == getenv(env, "ETHANI_PRICING_STYLUS_ADDRESS", "")
        regions_stylus_address == getenv(env, "ETHANI_REGIONS_STYLUS_ADDRESS", "")
        rpc_url ==
            getenv(env, "BLOCKCHAIN_RPC_URL", "https://sepolia-rollup.arbitrum.io/rpc")
        contracts_available ==
            /\ (pricing_contract_address # "" \/ pricing_stylus_address # "")
            /\ (region_contract_address # "" \/ regions_stylus_address # "")
    IN  [mode |-> mode,
         pricing_contract_address |-> pricing_contract_address,
         region_contract_address |-> region_contract_address,
         pricing_stylus_address |-> pricing_stylus_address,
         regions_stylus_address |-> regions_stylus_address,
         rpc_url |-> rpc_url,
         use_stylus_pricing |-> pricing_stylus_address # "",
         use_stylus_regions |-> regions_stylus_address # "",
         contracts_available |-> contracts_available]

\* ContractIntegration.__init__
ContractIntegration(mode, env) ==
    LET pricing_contract_address ==
            getenv(env, "ETHANI_PRICING_ADDRESS",
                   "0xc92fd01c122821Eb2C911d16468B20b07E25abC0")
        region_contract_address ==
            getenv(env, "ETHANI_REGION_ADDRESS",
                   "0x5836cdDE4D05B0aBDB97AE556a0b9E3971a16143")
        pricing_stylus_address == getenv(env, "ETHANI_PRICING_STYLUS_ADDRESS", "")
        regions_stylus_address == getenv(env, "ETHANI_REGIONS_STYLUS_ADDRESS", "")
        rpc_url ==
            getenv(env, "BLOCKCHAIN_RPC_URL", "https://sepolia-rollup.arbitrum.io/rpc")
        contracts_available ==
            /\ (pricing_contract_address # "" \/ pricing_stylus_address # "")
            /\ (region_contract_address # "" \/ regions_stylus_address # "")
    IN  [mode |-> IF mode = REAL /\ ~contracts_available THEN MOCK ELSE mode,
         pricing_contract_address |-> pricing_contract_address,
         region_contract_address |-> region_contract_address,
         pricing_stylus_address |-> pricing_stylus_address,
         regions_stylus_address |-> regions_stylus_address,
         rpc_url |-> rpc_url,
         use_stylus_pricing |-> pricing_stylus_address # "",
         use_stylus_regions |-> regions_stylus_address # "",
         contracts_available |-> contracts_available]

\* [mutant] a fallback that reports the base price as a local calculation
_fallback_to_base_price_tagged_mock(self, base_price, reason) ==
    [final_price |-> base_price,
     reason |-> reason,
     source |-> "mock_pricing",
     is_capped |-> FALSE,
     audit |-> [fallback_reason |-> reason, base_price |-> base_price]]

_fallback_to_base_price(self, base_price, reason) ==
    [final_price |-> base_price,
     reason |-> reason,
     source |-> "fallback",
     is_capped |-> FALSE,
     audit |-> [fallback_reason |-> reason, base_price |-> base_price]]

Fallback(self, base_price, reason) ==
    Attempt("fallback", Return(_fallback_to_base_price(self, base_price, reason)))

\* the body of the try block of both contract calls, up to the unpacking of
\* the result: import web3, is_connected(), to_checksum_address(address),
\* calculatePrice(supply, demand, base_price).call(), and the 3-tuple unpack
ContractCall(self, address, remote, web3, base_price) ==
    IF ~web3 THEN Raise("ImportError")
    ELSE IF remote.kind = "disconnected"
    THEN Fallback(self, base_price, "BLOCKCHAIN_UNAVAILABLE")
    ELSE IF address = "" THEN Raise("InvalidAddress")
    ELSE IF remote.kind = "error" THEN Raise("ContractCallError")
    ELSE IF remote.kind = "bad_reply" THEN Raise("ValueError")
    ELSE Return(remote.reply)

\* [mutant] a Solidity call that, on failure, goes back to the Stylus
\* contract when there is one
_call_pricing_contract_retrying_stylus(self, supply, demand, base_price, region, net) ==
    LET try == ContractCall(self, self.pricing_contract_address, net.solidity,
                            net.web3, base_price)
        again == ContractCall(self, self.pricing_stylus_address, net.stylus,
                              net.web3, base_price)
    IN  Attempt("solidity",
            IF IsRaised(try)
            THEN IF self.pricing_stylus_address # ""
                 THEN Attempt("stylus",
                          IF IsRaised(again) \/ again.stages # <<>>
                          THEN Fallback(self, base_price, "CONTRACT_CALL_FAILED")
                          ELSE Return([final_price |-> again.ret.final_price,
                                       reason |-> again.ret.reason,
                                       source |-> "smart_contract_stylus"]))
                 ELSE Fallback(self, base_price, "CONTRACT_CALL_FAILED")
            ELSE IF try.stages # <<>> THEN try
            ELSE Return([final_price |-> try.ret.final_price,
                         reason |-> try.ret.reason \o " [" \o try.ret.tier \o "]",
                         source |-> "smart_contract_solidity",
                         contract_address |-> self.pricing_contract_address,
                         contract_type |-> "solidity",
                         ai_used |-> FALSE]))

_call_pricing_contract(self, supply, demand, base_price, region, net) ==
    LET try == ContractCall(self, self.pricing_contract_address, net.solidity,
                            net.web3, base_price)
    IN  Attempt("solidity",
            IF IsRaised(try)
            THEN Fallback(self, base_price, "CONTRACT_CALL_FAILED")
            ELSE IF try.stages # <<>> THEN try
            ELSE Return([final_price |-> try.ret.final_price,
                         reason |-> try.ret.reason \o " [" \o try.ret.tier \o "]",
                         source |-> "smart_contract_solidity",
                         contract_address |-> self.pricing_contract_address,
                         contract_type |-> "solidity",
                         ai_used |-> FALSE]))

_call_stylus_pricing_contract(self, supply, demand, base_price, region, net) ==
    LET try == ContractCall(self, self.pricing_stylus_address, net.stylus,
                            net.web3, base_price)
    IN  Attempt("stylus",
            IF IsRaised(try)
            THEN IF self.pricing_contract_address # ""
                 THEN _call_pricing_contract(self, supply, demand, base_price,
                                             region, net)
                 ELSE Fallback(self, base_price, "STYLUS_CALL_FAILED")
            ELSE IF try.stages # <<>> THEN try
            ELSE Return([final_price |-> try.ret.final_price,
                         reason |-> try.ret.reason \o " [" \o try.ret.tier \o "]",
                         source |-> "smart_contract_stylus",
                         contract_address |-> self.pricing_stylus_address,
                         contract_type |-> "stylus_wasm",
                         ai_used |-> FALSE,
                         execution_type |-> "WASM"]))

\* _mock_pricing_calculation from the ratio on; multipliers and ratio are
\* kept in hundredths, as in calculate_price
MockPricedDecision(self, supply, demand, base_price, region) ==
    LET ratio == FloatDiv(demand, supply)
        tier  == IF FloatGT(ratio, FloatDiv(130, 100))
                 THEN <<115, "Critical shortage (ratio > 1.30)">>
                 ELSE IF FloatGT(ratio, FloatDiv(110, 100))
                 THEN <<108, "Shortage (ratio > 1.10)">>
                 ELSE IF FloatLT(ratio, FloatDiv(80, 100))
                 THEN <<90, "Surplus (ratio < 0.80)">>
                 ELSE <<100, "Balanced (0.80-1.10)">>
        calculated_price ==
            FloatInt(FloatMul(FloatOfInt(base_price), FloatDiv(tier[1], 100)))
        max_allowed ==
            FloatInt(FloatMul(FloatOfInt(base_price), FloatDiv(150, 100)))
        min_allowed ==
            FloatInt(FloatMul(FloatOfInt(base_price), FloatDiv(70, 100)))
        limited ==
            IF calculated_price > max_allowed
            THEN <<max_allowed, tier[2] \o " [CAPPED +50%]", TRUE>>
            ELSE IF calculated_price < min_allowed
            THEN <<min_allowed, tier[2] \o " [FLOORED -30%]", TRUE>>
            ELSE <<calculated_price, tier[2], FALSE>>
    IN  Return([final_price |-> limited[1],
                reason |-> limited[2],
                source |-> IF self.mode = MOCK THEN "mock_pricing"
                           ELSE "smart_contract",
                is_capped |-> limited[3],
                audit |-> [supply |-> supply, demand |-> demand,
                           ratio |-> PyRound2(ratio),
                           multiplier |-> tier[1],
                           base_price |-> base_price,
                           calculated_price |-> limited[1]]])

\* [mutant] the supply guard written supply < 0: supply = 0 reaches
\* demand / supply
_mock_pricing_calculation_dividing_by_zero(self, supply, demand, base_price, region) ==
    IF supply < 0 THEN Fallback(self, base_price, "INSUFFICIENT_DATA")
    ELSE IF demand < 0 THEN Fallback(self, base_price, "INSUFFICIENT_DATA")
    ELSE IF supply = 0 THEN Raise("ZeroDivisionError")
    ELSE MockPricedDecision(self, supply, demand, base_price, region)

_mock_pricing_calculation(self, supply, demand, base_price, region) ==
    IF supply <= 0 THEN Fallback(self, base_price, "INSUFFICIENT_DATA")
    ELSE IF demand < 0 THEN Fallback(self, base_price, "INSUFFICIENT_DATA")
    ELSE MockPricedDecision(self, supply, demand, base_price, region)

\* [mutant] the guard written self.contracts_available alone: the mode is
\* not looked at
ContractIntegration_calculate_price_ignoring_mode(self, supply, demand, base_price, region, net) ==
    IF self.contracts_available
    THEN LET try ==
                 IF self.use_stylus_pricing
                 THEN _call_stylus_pricing_contract(self, supply, demand,
                                                    base_price, region, net)
                 ELSE _call_pricing_contract(self, supply, demand, base_price,
                                             region, net)
         IN  IF IsRaised(try)
             THEN [ret |-> _fallback_to_base_price(self, base_price,
                                                   "CONTRACT_UNAVAILABLE"),
                   stages |-> try.stages \o <<"fallback">>]
             ELSE try
    ELSE Attempt("mock",
                 _mock_pricing_calculation(self, supply, demand, base_price, region))

\* ContractIntegration.calculate_price
ContractIntegration_calculate_price(self, supply, demand, base_price, region, net) ==
    IF self.mode = REAL /\ self.contracts_available
    THEN LET try ==
                 IF self.use_stylus_pricing
                 THEN _call_stylus_pricing_contract(self, supply, demand,
                                                    base_price, region, net)
                 ELSE _call_pricing_contract(self, supply, demand, base_price,
                                             region, net)
         IN  IF IsRaised(try)
             THEN [ret |-> _fallback_to_base_price(self, base_price,
                                                   "CONTRACT_UNAVAILABLE"),
                   stages |-> try.stages \o <<"fallback">>]
             ELSE try
    ELSE Attempt("mock",
                 _mock_pricing_calculation(self, supply, demand, base_price, region))

(***************************************************************************)
(* Region base prices.  A region name is a str, modelled as the sequence   *)
(* of its characters, so that lower() and replace(" ", "_") are computed   *)
(* character by character.                                                 *)
(***************************************************************************)
UpperCase ==
    <<"A", "B", "C", "D", "E", "F", "G", "H", "I", "J", "K", "L", "M",
      "N", "O", "P", "Q", "R", "S", "T", "U", "V", "W", "X", "Y", "Z">>
LowerCase ==
    <<"a", "b", "c", "d", "e", "f", "g", "h", "i", "j", "k", "l", "m",
      "n", "o", "p", "q", "r", "s", "t", "u", "v", "w", "x", "y", "z">>

\* str.lower()
lower(str) ==
    [i \in DOMAIN str |->
        IF \E k \in DOMAIN UpperCase : UpperCase[k] = str[i]
        THEN LowerCase[CHOOSE k \in DOMAIN UpperCase : UpperCase[k] = str[i]]
        ELSE str[i]]

\* str.replace(old, new) for one-character old and new
replace(str, old, new) ==
    [i \in DOMAIN str |-> IF str[i] = old THEN new ELSE str[i]]

\* dict.get(key, default)
get(dict, key, default) ==
    IF \E entry \in dict : entry[1] = key
    THEN (CHOOSE entry \in dict : entry[1] = key)[2]
    ELSE default

\* the dict of _mock_base_price, as its set of (key, value) items
mock_prices ==
    {<< <<"d", "e", "f", "a", "u", "l", "t">>, 10000 >>,
     << <<"m", "i", "n", "a", "h", "a", "s", "a", "_",
          "s", "e", "l", "a", "t", "a", "n">>, 10500 >>,
     << <<"j", "a", "v", "a">>, 9800 >>,
     << <<"s", "u", "m", "a", "t", "r", "a">>, 10200 >>}

\* [mutant] the table looked up with the region name as given
_mock_base_price_without_region_key(self, region) ==
    Return(get(mock_prices, region,
               get(mock_prices, <<"d", "e", "f", "a", "u", "l", "t">>, None)))

_mock_base_price(self, region) ==
    LET region_key == replace(lower(region), " ", "_")
    IN  Return(get(mock_prices, region_key,
                   get(mock_prices, <<"d", "e", "f", "a", "u", "l", "t">>, None)))

_call_region_contract_get_base_price(self, region) ==
    Raise("NotImplementedError")

get_base_price(self, region) ==
    IF self.mode = REAL /\ self.contracts_available
    THEN LET try == _call_region_contract_get_base_price(self, region)
         IN  IF IsRaised(try) THEN _mock_base_price(self, region) ELSE try
    ELSE _mock_base_price(self, region)

health_check(self) ==
    [mode |-> self.mode,
     contracts_deployed |-> self.contracts_available,
     pricing_contract |-> IF self.pricing_contract_address # ""
                          THEN self.pricing_contract_address ELSE "NOT_SET",
     region_contract |-> IF self.region_contract_address # ""
                         THEN self.region_contract_address ELSE "NOT_SET",
     rpc_url |-> self.rpc_url,
     ready |-> self.mode = REAL /\ self.contracts_available]

(***************************************************************************)
(* Inputs.  Small ranges cover the ratios at and next to the thresholds    *)
(* (supply 10 with demand 8, 11, 13) and the base prices whose limits are  *)
(* not integers; the listed values are the scenarios of                    *)
(* test_integration.py and the values just off a threshold.                *)
(***************************************************************************)
MaxDemand == 14
MaxBasePrice == 12

Supplies == {-1, 0, 10, 100, 200}
Demands == (-1..MaxDemand) \cup {79, 80, 100, 110, 111, 120, 130, 131, 150, 300}
BasePrices == (0..MaxBasePrice) \cup {45, 100, 101, 10000}
SeasonFactors == {49, 50, 70, 75, 100, 130, 131, 140, 150, 200, 201}

Inputs ==
    [supply : Supplies, demand : Demands, base_price : BasePrices,
     season_factor : SeasonFactors]

\* a JSON body may carry "season_factor": null
Bodies ==
    Inputs \cup [supply : {100}, demand : {0, 120}, base_price : {10000},
                 season_factor : {None}]

\* the arguments of ContractIntegration.calculate_price
ResolvePairs ==
    {<<0, 0>>, <<0, 5>>, <<10, 0>>, <<10, 8>>, <<10, 11>>, <<10, 12>>,
     <<10, 13>>, <<10, 14>>, <<100, 120>>, <<100, 150>>}
ResolveRequests ==
    {[supply |-> p[1], demand |-> p[2], base_price |-> b,
      region |-> "Default Region"] : p \in ResolvePairs, b \in {10, 100, 10000}}

\* region names: table keys in several spellings, names that are not in the
\* table, and names whose blanks are not single spaces
Regions ==
    {<<"J", "a", "v", "a">>,
     <<"j", "a", "v", "a">>,
     <<"J", "A", "V", "A">>,
     <<" ", "j", "a", "v", "a">>,
     <<"S", "u", "m", "a", "t", "r", "a">>,
     <<"D", "e", "f", "a", "u", "l", "t">>,
     <<"M", "i", "n", "a", "h", "a", "s", "a", " ",
       "S", "e", "l", "a", "t", "a", "n">>,
     <<"m", "i", "n", "a", "h", "a", "s", "a", "_",
       "s", "e", "l", "a", "t", "a", "n">>,
     <<"M", "i", "n", "a", "h", "a", "s", "a", "\t",
       "S", "e", "l", "a", "t", "a", "n">>,
     <<"B", "a", "l", "i">>,
     <<"I", "D">>,
     <<>>}
RegionRequests == {[region |-> r] : r \in Regions}

\* the arguments of a call that takes none
NoArguments == <<>>

\* the environment variables the constructor reads
EnvNames ==
    {"ETHANI_PRICING_ADDRESS", "ETHANI_REGION_ADDRESS",
     "ETHANI_PRICING_STYLUS_ADDRESS", "ETHANI_REGIONS_STYLUS_ADDRESS",
     "BLOCKCHAIN_RPC_URL"}
Environments ==
    {env \in [EnvNames -> {Unset, "", "0xStylus"}] :
        /\ env["BLOCKCHAIN_RPC_URL"] = Unset
        /\ env["ETHANI_PRICING_ADDRESS"] \in {Unset, ""}
        /\ env["ETHANI_REGION_ADDRESS"] \in {Unset, ""}
        /\ env["ETHANI_PRICING_STYLUS_ADDRESS"] \in {Unset, "0xStylus"}
        /\ env["ETHANI_REGIONS_STYLUS_ADDRESS"] \in {Unset, "0xStylus"}}

\* what a contract answers: a (finalPrice, reason, tier) of its own choosing,
\* a result that does not unpack into three values, an error raised by the
\* call (revert, timeout, connection error), or a node that is not connected
RemoteReplies ==
    [final_price : {11500, 99999}, reason : {"Critical shortage"},
     tier : {"CRITICAL"}]
RemoteOutcomes ==
    [kind : {"ok"}, reply : RemoteReplies]
        \cup {[kind |-> k] : k \in {"bad_reply", "error", "disconnected"}}
Nets ==
    [web3 : {TRUE}, stylus : RemoteOutcomes, solidity : RemoteOutcomes]
        \cup {[web3 |-> FALSE, stylus |-> [kind |-> "error"],
               solidity |-> [kind |-> "error"]]}

VARIABLES
    endpoint,   \* the operation that has run on the request ("none" before)
    request,    \* the input of the call
    response,   \* what the operation returned
    config,     \* the mode and the environment blockchain was constructed with
    blockchain, \* the ContractIntegration instance the web layer holds:
                \* the name app/main.py binds with `from .blockchain import`
    blockchain_global,  \* the global name blockchain of app/blockchain.py
    net,        \* what the remote side does during the call
    stages,     \* the price sources the call went through, in order
    calls,      \* the calls made so far: endpoint, request, response of each
    threads,    \* the calculate_price calls in flight, one per thread
    users       \* the SQLite database file of users.py

vars == <<endpoint, request, response, config, blockchain, blockchain_global,
          net, stages, calls, threads, users>>

\* the module-level instance: ContractIntegration(mode=BlockchainMode.REAL)
DefaultConfig == [mode |-> REAL, env |-> [n \in EnvNames |-> Unset]]
QuietNet == [web3 |-> TRUE, stylus |-> [kind |-> "error"],
             solidity |-> [kind |-> "error"]]

(***************************************************************************)
(* The rule engine and the v1 endpoint.  Every call is independent of the  *)
(* calls before it (the functions keep no state), so a behaviour is one    *)
(* call: an input, then the operation on it.                               *)
(***************************************************************************)
InitPricing ==
    /\ endpoint = "none"
    /\ request \in Bodies
    /\ response = None
    /\ config = DefaultConfig
    /\ blockchain = ContractIntegration(config.mode, config.env)
    /\ blockchain_global = blockchain
    /\ net = QuietNet
    /\ stages = <<>>
    /\ calls = <<>>
    /\ threads = <<>>
    /\ users = None

\* evaluate: a caller that has checked validate_inputs calls calculate_price
Evaluate ==
    /\ endpoint = "none"
    /\ request.season_factor # None
    /\ validate_inputs(request.supply, request.demand, request.base_price)[1]
    /\ endpoint' = "evaluate"
    /\ response' = calculate_price(request.supply, request.demand,
                                   request.base_price, request.season_factor)
    /\ UNCHANGED <<request, config, blockchain_global, blockchain, net, stages>>
    /\ UNCHANGED <<calls, threads, users>>

\* POST /api/v1/pricing/calculate; a body PriceRequest rejects never reaches
\* the handler (FastAPI answers 422)
CalculatePriceV1 ==
    /\ endpoint = "none"
    /\ endpoint' = "v1"
    /\ response' = IF PriceRequest(request) THEN calculate_price_v1(request)
                   ELSE [status |-> 422]
    /\ UNCHANGED <<request, config, blockchain_global, blockchain, net, stages>>
    /\ UNCHANGED <<calls, threads, users>>

\* validate_inputs(supply, demand, base_price); season_factor is not one of
\* its arguments, so it is called on the bodies with the default one
ValidateInputs ==
    /\ endpoint = "none"
    /\ request.season_factor = 100
    /\ endpoint' = "validate"
    /\ response' = validate_inputs(request.supply, request.demand,
                                   request.base_price)
    /\ UNCHANGED <<request, config, blockchain_global, blockchain, net, stages>>
    /\ UNCHANGED <<calls, threads, users>>

NextPricing == Evaluate \/ CalculatePriceV1 \/ ValidateInputs

SpecPricing == InitPricing /\ [][NextPricing]_vars

(***************************************************************************)
(* The contract integration: an instance constructed with any mode and     *)
(* environment, one call of calculate_price on a validated input, under    *)
(* any behaviour of the remote side.                                       *)
(***************************************************************************)
Init ==
    /\ endpoint = "none"
    /\ \/ /\ request \in {r \in ResolveRequests :
                               validate_inputs(r.supply, r.demand, r.base_price)[1]}
          /\ net \in Nets
       \/ /\ request \in RegionRequests \cup {NoArguments}
          /\ net = QuietNet
    /\ response = None
    /\ config \in [mode : {MOCK, REAL}, env : Environments]
    /\ blockchain = ContractIntegration(config.mode, config.env)
    /\ blockchain_global = blockchain
    /\ stages = <<>>
    /\ calls = <<>>
    /\ threads = <<>>
    /\ users = None

\* blockchain.calculate_price(supply, demand, base_price, region)
Resolve ==
    /\ endpoint = "none"
    /\ "supply" \in DOMAIN request
    /\ LET out == ContractIntegration_calculate_price(
                      blockchain, request.supply, request.demand,
                      request.base_price, request.region, net)
       IN  /\ response' = out.ret
           /\ stages' = out.stages
    /\ endpoint' = "resolve"
    /\ UNCHANGED <<request, config, blockchain_global, blockchain, net>>
    /\ UNCHANGED <<calls, threads, users>>

\* blockchain.get_base_price(region)
GetBasePrice ==
    /\ endpoint = "none"
    /\ DOMAIN request = {"region"}
    /\ LET out == get_base_price(blockchain, request.region)
       IN  /\ response' = out.ret
           /\ stages' = out.stages
    /\ endpoint' = "get_base_price"
    /\ UNCHANGED <<request, config, blockchain_global, blockchain, net>>
    /\ UNCHANGED <<calls, threads, users>>

\* blockchain.health_check()
HealthCheck ==
    /\ endpoint = "none"
    /\ request = NoArguments
    /\ response' = health_check(blockchain)
    /\ endpoint' = "health_check"
    /\ UNCHANGED <<request, config, blockchain_global, blockchain, net, stages>>
    /\ UNCHANGED <<calls, threads, users>>

Next == Resolve \/ GetBasePrice \/ HealthCheck

Spec == Init /\ [][Next]_vars

(***************************************************************************)
(* A sequence of calls of the rule engine and of the v1 endpoint, each on  *)
(* any input, recorded in calls.  The v1 handler stamps its answer with    *)
(* datetime.utcnow(); the time of a call is the number of calls before it. *)
(***************************************************************************)
MaxCalls == 3

\* the body of test_determinism, the bodies whose float products are not
\* exact (100 * 1.15, 45 * 0.7), a surplus and an empty market
HistoryBodies ==
    {[supply |-> 80, demand |-> 120, base_price |-> 10000, season_factor |-> 100],
     [supply |-> 100, demand |-> 150, base_price |-> 100, season_factor |-> 100],
     [supply |-> 100, demand |-> 100, base_price |-> 45, season_factor |-> 70],
     [supply |-> 200, demand |-> 100, base_price |-> 10000, season_factor |-> 130],
     [supply |-> 0, demand |-> 0, base_price |-> 10, season_factor |-> 100]}

InitHistory ==
    /\ endpoint = "none"
    /\ request = None
    /\ response = None
    /\ config = DefaultConfig
    /\ blockchain = ContractIntegration(config.mode, config.env)
    /\ blockchain_global = blockchain
    /\ net = QuietNet
    /\ stages = <<>>
    /\ calls = <<>>
    /\ threads = <<>>
    /\ users = None

Record(name, body, out) ==
    /\ endpoint' = name
    /\ request' = body
    /\ response' = out
    /\ calls' = Append(calls, [endpoint |-> name, request |-> body,
                               response |-> out])
    /\ UNCHANGED <<config, blockchain_global, blockchain, net, stages, threads, users>>

\* [mutant] a calculator that keeps the price of its last call and prices
\* the next call from it instead of from base_price
EvaluateCall_from_last_price ==
    /\ Len(calls) < MaxCalls
    /\ \E body \in HistoryBodies :
          /\ validate_inputs(body.supply, body.demand, body.base_price)[1]
          /\ \E out \in {calculate_price(body.supply, body.demand,
                                          IF endpoint = "evaluate"
                                          THEN response.suggested_price
                                          ELSE body.base_price,
                                          body.season_factor)} :
                 Record("evaluate", body, out)

\* calculate_price on a validated input
EvaluateCall ==
    /\ Len(calls) < MaxCalls
    /\ \E body \in HistoryBodies :
          /\ validate_inputs(body.supply, body.demand, body.base_price)[1]
          /\ \E out \in {calculate_price(body.supply, body.demand,
                                          body.base_price, body.season_factor)} :
                 Record("evaluate", body, out)

\* the answer of the v1 handler, stamped with the time of the call
Stamped(out, timestamp) ==
    IF ~out.success THEN out
    ELSE [success |-> TRUE,
          data |-> [final_price |-> out.data.final_price,
                    pricing_tier |-> out.data.pricing_tier,
                    adjustment_percent |-> out.data.adjustment_percent,
                    explanation |-> out.data.explanation,
                    ratio |-> out.data.ratio,
                    calculation_method |-> out.data.calculation_method,
                    timestamp |-> timestamp]]

\* POST /api/v1/pricing/calculate
V1Call ==
    /\ Len(calls) < MaxCalls
    /\ \E body \in HistoryBodies :
          IF ~PriceRequest(body)
          THEN Record("v1", body, [status |-> 422])
          ELSE \E out \in {calculate_price_v1(body)} :
                   \E stamped \in {Stamped(out, Len(calls))} :
                       Record("v1", body, stamped)

NextHistory == EvaluateCall \/ V1Call

SpecHistory == InitHistory /\ [][NextHistory]_vars

(***************************************************************************)
(* Concurrent calls of blockchain.calculate_price.  The handlers of        *)
(* app/main.py are plain functions, which FastAPI runs on a pool of        *)
(* threads, so calls on the one module-level instance interleave.  A call  *)
(* is split at each point where it reads a field of self or waits for the  *)
(* network; pc is the part of the code the thread is about to run.         *)
(***************************************************************************)
Threads == {"t1", "t2"}

ConcurrentRequests ==
    {[supply |-> 100, demand |-> 120, base_price |-> 10000, region |-> "Java"],
     [supply |-> 10, demand |-> 12, base_price |-> 10, region |-> "Java"]}

ConcurrentNets ==
    {n \in Nets : /\ n.web3
                  /\ n.stylus \in {[kind |-> "error"], [kind |-> "disconnected"],
                                   [kind |-> "ok",
                                    reply |-> [final_price |-> 11500,
                                               reason |-> "Critical shortage",
                                               tier |-> "CRITICAL"]]}
                  /\ n.solidity \in {[kind |-> "error"],
                                     [kind |-> "ok",
                                      reply |-> [final_price |-> 11500,
                                                 reason |-> "Critical shortage",
                                                 tier |-> "CRITICAL"]]}}

ConcurrentEnvironments ==
    {env \in Environments :
        /\ env["ETHANI_REGION_ADDRESS"] = Unset
        /\ env["ETHANI_REGIONS_STYLUS_ADDRESS"] = Unset}

IdleThread ==
    [pc |-> "idle", request |-> NoArguments, net |-> QuietNet,
     stages |-> <<>>, ret |-> None]

InitConcurrent ==
    /\ endpoint = "none"
    /\ request = None
    /\ response = None
    /\ config \in [mode : {MOCK, REAL}, env : ConcurrentEnvironments]
    /\ blockchain = ContractIntegration(config.mode, config.env)
    /\ blockchain_global = blockchain
    /\ net = QuietNet
    /\ stages = <<>>
    /\ calls = <<>>
    /\ threads = [t \in Threads |-> IdleThread]
    /\ users = None

\* the thread goes to pc, having visited stage (if any)
Goto(t, pc, stage) ==
    threads' = [threads EXCEPT ![t].pc = pc, ![t].stages = @ \o stage]

\* the thread returns what out returns
Finish(t, stage, out) ==
    threads' = [threads EXCEPT ![t].pc = "done",
                               ![t].stages = @ \o stage \o out.stages,
                               ![t].ret = out.ret]

\* a request arrives: blockchain.calculate_price(supply, demand, base_price,
\* region) is called on a thread of the pool
Call(t) ==
    /\ threads[t].pc = "idle"
    /\ \E r \in ConcurrentRequests, n \in ConcurrentNets :
          threads' = [threads EXCEPT ![t].pc = "calculate_price",
                                     ![t].request = r, ![t].net = n]
    /\ UNCHANGED <<endpoint, request, response, config, blockchain_global, blockchain, net,
                   stages, calls, users>>

\* calculate_price: the test of self.mode, self.contracts_available and
\* self.use_stylus_pricing
Dispatch(t) ==
    /\ threads[t].pc = "calculate_price"
    /\ IF blockchain.mode = REAL /\ blockchain.contracts_available
       THEN IF blockchain.use_stylus_pricing
            THEN Goto(t, "stylus", <<>>)
            ELSE Goto(t, "solidity", <<>>)
       ELSE Goto(t, "mock", <<>>)
    /\ UNCHANGED <<endpoint, request, response, config, blockchain_global, blockchain, net,
                   stages, calls, users>>

\* [mutant] a call that, when the Stylus contract fails, switches Stylus off
\* on the shared instance before going on to Solidity
StylusCall_switching_stylus_off(t) ==
    /\ threads[t].pc = "stylus"
    /\ LET r   == threads[t].request
           try == ContractCall(blockchain, blockchain.pricing_stylus_address,
                               threads[t].net.stylus, threads[t].net.web3,
                               r.base_price)
       IN  IF IsRaised(try)
           THEN /\ blockchain' = [blockchain EXCEPT !.use_stylus_pricing = FALSE]
                /\ IF blockchain.pricing_contract_address # ""
                   THEN Goto(t, "solidity", <<"stylus">>)
                   ELSE Finish(t, <<"stylus">>,
                               Fallback(blockchain, r.base_price,
                                        "STYLUS_CALL_FAILED"))
           ELSE /\ Finish(t, <<>>,
                          _call_stylus_pricing_contract(
                              blockchain, r.supply, r.demand, r.base_price,
                              r.region, threads[t].net))
                /\ UNCHANGED blockchain
    /\ UNCHANGED <<endpoint, request, response, config, blockchain_global, net, stages, calls,
                   users>>

\* _call_stylus_pricing_contract: the try block, and the except block up to
\* the call of _call_pricing_contract
StylusCall(t) ==
    /\ threads[t].pc = "stylus"
    /\ LET r   == threads[t].request
           try == ContractCall(blockchain, blockchain.pricing_stylus_address,
                               threads[t].net.stylus, threads[t].net.web3,
                               r.base_price)
       IN  IF IsRaised(try)
           THEN IF blockchain.pricing_contract_address # ""
                THEN Goto(t, "solidity", <<"stylus">>)
                ELSE Finish(t, <<"stylus">>,
                            Fallback(blockchain, r.base_price,
                                     "STYLUS_CALL_FAILED"))
           ELSE Finish(t, <<>>,
                       _call_stylus_pricing_contract(
                           blockchain, r.supply, r.demand, r.base_price,
                           r.region, threads[t].net))
    /\ UNCHANGED <<endpoint, request, response, config, blockchain_global, blockchain, net,
                   stages, calls, users>>

\* _call_pricing_contract
SolidityCall(t) ==
    /\ threads[t].pc = "solidity"
    /\ LET r == threads[t].request
       IN  Finish(t, <<>>,
                  _call_pricing_contract(blockchain, r.supply, r.demand,
                                         r.base_price, r.region, threads[t].net))
    /\ UNCHANGED <<endpoint, request, response, config, blockchain_global, blockchain, net,
                   stages, calls, users>>

\* _mock_pricing_calculation
MockCall(t) ==
    /\ threads[t].pc = "mock"
    /\ LET r == threads[t].request
       IN  Finish(t, <<"mock">>,
                  _mock_pricing_calculation(blockchain, r.supply, r.demand,
                                            r.base_price, r.region))
    /\ UNCHANGED <<endpoint, request, response, config, blockchain_global, blockchain, net,
                   stages, calls, users>>

NextConcurrent ==
    \E t \in Threads :
        Call(t) \/ Dispatch(t) \/ StylusCall(t) \/ SolidityCall(t) \/ MockCall(t)

SpecConcurrent == InitConcurrent /\ [][NextConcurrent]_vars

(***************************************************************************)
(* users.py: registration on the SQLite file.  The database is the file    *)
(* (present or not), the tables created in it, the rows of users and of    *)
(* deliveries in insertion order with their AUTOINCREMENT counters, and    *)
(* whether a connection that was never closed still holds the write lock   *)
(* of its open transaction; supply_reports and waste_tracking stay empty.  *)
(* A text value is a string, NULL stands for Python's None.                *)
(***************************************************************************)
NULL == "<NULL>"
MaxRegistrations == 3

Phones == {"0811", "0812", "0813", NULL}
Names == {"Ani", "Budi"}
Roles == {"farmer", "buyer"}
Registrations ==
    [phone : Phones, name : Names, email : {NULL}, national_id : {NULL},
     location : {"Java"}, role : Roles]

Tables == {"users", "supply_reports", "waste_tracking", "deliveries"}

NoDatabase ==
    [exists |-> FALSE, tables |-> {}, users |-> <<>>, sqlite_sequence |-> 0,
     deliveries |-> <<>>, delivery_sequence |-> 0, locked |-> FALSE]

\* init_db run from its first line to its last with no other call in between
init_db(db) ==
    IF db.exists THEN db
    ELSE [NoDatabase EXCEPT !.exists = TRUE, !.tables = Tables]

\* cursor.execute(INSERT INTO users ...) on a new connection, under the
\* constraints of CREATE TABLE users, and conn.commit().  The sqlite3 module
\* opens a transaction before the INSERT, which takes the write lock.  With
\* the lock held by another connection the statement times out
\* (OperationalError: database is locked).  A statement that breaks UNIQUE
\* or NOT NULL raises IntegrityError and changes no row, but its transaction
\* stays open, and with it the lock, for as long as the connection lives.
INSERT_INTO_users(db, phone, name, email, national_id, location, role, now) ==
    IF "users" \notin db.tables
    THEN [raised |-> "OperationalError", error |-> "no such table: users",
          db |-> db]
    ELSE IF db.locked
    THEN [raised |-> "OperationalError", error |-> "database is locked",
          db |-> db]
    ELSE IF phone = NULL \/ name = NULL \/ location = NULL \/ role = NULL
    THEN [raised |-> "IntegrityError", db |-> [db EXCEPT !.locked = TRUE]]
    ELSE IF \E i \in DOMAIN db.users : db.users[i].phone = phone
    THEN [raised |-> "IntegrityError", db |-> [db EXCEPT !.locked = TRUE]]
    ELSE [raised |-> "",
          lastrowid |-> db.sqlite_sequence + 1,
          db |-> [db EXCEPT
                    !.sqlite_sequence = @ + 1,
                    !.users = Append(@,
                        [id |-> db.sqlite_sequence + 1, phone |-> phone,
                         email |-> email, name |-> name,
                         national_id |-> national_id, location |-> location,
                         role |-> role, created_at |-> now, points |-> 0,
                         is_active |-> 1])]]

\* SELECT * FROM users WHERE id = ?
SELECT_user_by_id(db, user_id) ==
    db.users[CHOOSE i \in DOMAIN db.users : db.users[i].id = user_id]

\* register_user: the database it leaves and the dict it returns.  Only the
\* successful path reaches conn.close(); the except blocks return with the
\* connection open.
register_user(db, phone, name, email, national_id, location, role, now) ==
    LET insert == INSERT_INTO_users(init_db(db), phone, name, email,
                                    national_id, location, role, now)
    IN  IF insert.raised = "IntegrityError"
        THEN [db |-> insert.db,
              result |-> [success |-> FALSE,
                          message |-> "Phone number already registered"]]
        ELSE IF insert.raised = "OperationalError"
        THEN [db |-> insert.db,
              result |-> [success |-> FALSE,
                          message |-> "Registration error: " \o insert.error]]
        ELSE [db |-> insert.db,
              result |-> [success |-> TRUE,
                          user |-> SELECT_user_by_id(insert.db, insert.lastrowid),
                          message |-> "User " \o name
                                      \o " registered successfully as " \o role]]

InitUsers ==
    /\ endpoint = "none"
    /\ request = None
    /\ response = None
    /\ config = DefaultConfig
    /\ blockchain = ContractIntegration(config.mode, config.env)
    /\ blockchain_global = blockchain
    /\ net = QuietNet
    /\ stages = <<>>
    /\ calls = <<>>
    /\ threads = <<>>
    /\ users = NoDatabase

\* a call of register_user; CURRENT_TIMESTAMP is the number of calls before
RegisterUser ==
    /\ Len(calls) < MaxRegistrations
    /\ \E r \in Registrations :
          LET out == register_user(users, r.phone, r.name, r.email,
                                   r.national_id, r.location, r.role, Len(calls))
          IN  /\ users' = out.db
              /\ request' = r
              /\ response' = out.result
              /\ calls' = Append(calls, [request |-> r, response |-> out.result,
                                         before |-> users.users,
                                         after |-> out.db.users])
    /\ endpoint' = "register_user"
    /\ UNCHANGED <<config, blockchain_global, blockchain, net, stages, threads>>

\* the interpreter frees the connection a failed call left open, at a moment
\* of its own choosing: the transaction is rolled back and the lock released
CollectGarbage ==
    /\ users.locked
    /\ users' = [users EXCEPT !.locked = FALSE]
    /\ UNCHANGED <<endpoint, request, response, config, blockchain_global, blockchain, net,
                   stages, calls, threads>>

NextUsers == RegisterUser \/ CollectGarbage

SpecUsers == InitUsers /\ [][NextUsers]_vars

(***************************************************************************)
(* users.py: deliveries and points.  The database starts with two          *)
(* registered users; each call is run from start to end.                   *)
(***************************************************************************)
MaxDeliveryCalls == 4
Distributors == {1, 2}
DeliveryIds == 1 .. 3

\* add_points: UPDATE users SET points = points + ? WHERE id = ?
add_points(db, user_id, points, reason) ==
    LET ready == init_db(db)
    IN  IF "users" \notin ready.tables \/ ready.locked
        THEN [db |-> ready,
              result |-> [success |-> FALSE, message |-> "Error awarding points"]]
        ELSE [db |-> [ready EXCEPT !.users =
                         [i \in DOMAIN @ |->
                             IF @[i].id = user_id
                             THEN [@[i] EXCEPT !.points = @ + points]
                             ELSE @[i]]],
              result |-> [success |-> TRUE,
                          message |-> "Awarded points for " \o reason]]

\* create_delivery: INSERT INTO deliveries; status defaults to 'pending'
create_delivery(db, distributor_id, origin, destination, food_category, quantity, now) ==
    LET ready == init_db(db)
    IN  IF "deliveries" \notin ready.tables \/ ready.locked
        THEN [db |-> ready,
              result |-> [success |-> FALSE, message |-> "Error creating delivery"]]
        ELSE [db |-> [ready EXCEPT
                         !.delivery_sequence = @ + 1,
                         !.deliveries = Append(@,
                             [id |-> ready.delivery_sequence + 1,
                              distributor_id |-> distributor_id,
                              origin_location |-> origin,
                              destination_location |-> destination,
                              food_category |-> food_category,
                              quantity |-> quantity,
                              status |-> "pending",
                              completed_at |-> None,
                              timestamp |-> now])],
              result |-> [success |-> TRUE,
                          delivery_id |-> ready.delivery_sequence + 1,
                          message |-> "Delivery order created"]]

\* complete_delivery: UPDATE deliveries SET status = 'completed' WHERE id = ?,
\* SELECT distributor_id, commit, close, then add_points(distributor_id, 15)
complete_delivery(db, delivery_id, now) ==
    LET ready == init_db(db)
        found == {i \in DOMAIN ready.deliveries :
                      ready.deliveries[i].id = delivery_id}
        updated ==
            [ready EXCEPT !.deliveries =
                [i \in DOMAIN @ |->
                    IF i \in found
                    THEN [@[i] EXCEPT !.status = "completed",
                                      !.completed_at = now]
                    ELSE @[i]]]
        distributor_id ==
            IF found = {} THEN None
            ELSE ready.deliveries[CHOOSE i \in found : TRUE].distributor_id
    IN  IF "deliveries" \notin ready.tables \/ ready.locked
        THEN [db |-> ready,
              result |-> [success |-> FALSE,
                          message |-> "Error completing delivery"]]
        ELSE [db |-> IF distributor_id # None /\ distributor_id # 0
                     THEN add_points(updated, distributor_id, 15,
                                     "delivery_complete").db
                     ELSE updated,
              result |-> [success |-> TRUE,
                          message |-> "Delivery marked complete and points awarded"]]

\* the database after two registrations
TwoUsers ==
    register_user(
        register_user(NoDatabase, "0811", "Ani", NULL, NULL, "Java",
                      "distributor", 0).db,
        "0812", "Budi", NULL, NULL, "Java", "distributor", 0).db

InitDeliveries ==
    /\ endpoint = "none"
    /\ request = None
    /\ response = None
    /\ config = DefaultConfig
    /\ blockchain = ContractIntegration(config.mode, config.env)
    /\ blockchain_global = blockchain
    /\ net = QuietNet
    /\ stages = <<>>
    /\ calls = <<>>
    /\ threads = <<>>
    /\ users = TwoUsers

\* the call is logged with the database before and after it
Logged(name, arguments, out) ==
    /\ users' = out.db
    /\ endpoint' = name
    /\ request' = arguments
    /\ response' = out.result
    /\ calls' = Append(calls, [endpoint |-> name, request |-> arguments,
                               response |-> out.result,
                               before |-> users, after |-> out.db])
    /\ UNCHANGED <<config, blockchain_global, blockchain, net, stages, threads>>

CreateDelivery ==
    /\ Len(calls) < MaxDeliveryCalls
    /\ \E distributor_id \in Distributors :
          \E out \in {create_delivery(users, distributor_id, "Java", "Bali",
                                      "rice", 5, Len(calls) + 1)} :
              Logged("create_delivery", distributor_id, out)

CompleteDelivery ==
    /\ Len(calls) < MaxDeliveryCalls
    /\ \E delivery_id \in DeliveryIds :
          \E out \in {complete_delivery(users, delivery_id, Len(calls) + 1)} :
              Logged("complete_delivery", delivery_id, out)

NextDeliveries == CreateDelivery \/ CompleteDelivery

SpecDeliveries == InitDeliveries /\ [][NextDeliveries]_vars

(***************************************************************************)
(* users.py: init_db called by several threads while the database file is  *)
(* absent.  Each thread runs init_db statement by statement, then one      *)
(* register_user.                                                          *)
(***************************************************************************)
\* the CREATE TABLE statements of init_db, in their order
TableOrder == <<"users", "supply_reports", "waste_tracking", "deliveries">>

InitDbThread == [pc |-> "check", created |-> 0, error |-> NULL, result |-> NULL]

InitInitDb ==
    /\ endpoint = "none"
    /\ request = None
    /\ response = None
    /\ config = DefaultConfig
    /\ blockchain = ContractIntegration(config.mode, config.env)
    /\ blockchain_global = blockchain
    /\ net = QuietNet
    /\ stages = <<>>
    /\ calls = <<>>
    /\ threads = [t \in Threads |-> InitDbThread]
    /\ users = NoDatabase

InitDbStep(t, thread, db) ==
    /\ threads' = [threads EXCEPT ![t] = thread]
    /\ users' = db
    /\ UNCHANGED <<endpoint, request, response, config, blockchain_global, blockchain, net,
                   stages, calls>>

\* if DB_PATH.exists(): return
InitDbCheck(t) ==
    /\ threads[t].pc = "check"
    /\ InitDbStep(t, [threads[t] EXCEPT !.pc = IF users.exists THEN "returned"
                                                ELSE "connect"], users)

\* conn = sqlite3.connect(DB_PATH): the file is there from now on
InitDbConnect(t) ==
    /\ threads[t].pc = "connect"
    /\ InitDbStep(t, [threads[t] EXCEPT !.pc = "create"],
                  [users EXCEPT !.exists = TRUE])

\* cursor.execute("CREATE TABLE ..."): committed at once; a table that is
\* already there raises sqlite3.OperationalError out of init_db
InitDbCreateTable(t) ==
    /\ threads[t].pc = "create"
    /\ LET table == TableOrder[threads[t].created + 1]
       IN  IF table \in users.tables
           THEN InitDbStep(t, [threads[t] EXCEPT
                                  !.pc = "raised",
                                  !.error = "table " \o table \o " already exists"],
                           users)
           ELSE InitDbStep(t, [threads[t] EXCEPT
                                  !.created = @ + 1,
                                  !.pc = IF threads[t].created + 1 = Len(TableOrder)
                                         THEN "commit" ELSE "create"],
                           [users EXCEPT !.tables = @ \cup {table}])

\* conn.commit(); conn.close()
InitDbClose(t) ==
    /\ threads[t].pc = "commit"
    /\ InitDbStep(t, [threads[t] EXCEPT !.pc = "returned"], users)

\* the caller goes on to register a user once its init_db has returned
RegisterAfterInit(t) ==
    /\ threads[t].pc = "returned"
    /\ \E phone \in Phones :
          \E out \in {register_user(users, phone, "Ani", NULL, NULL, "Java",
                                    "farmer", 0)} :
              InitDbStep(t, [threads[t] EXCEPT !.pc = "done",
                                               !.result = out.result.message],
                         out.db)

NextInitDb ==
    \E t \in Threads :
        \/ InitDbCheck(t)
        \/ InitDbConnect(t)
        \/ InitDbCreateTable(t)
        \/ InitDbClose(t)
        \/ RegisterAfterInit(t)

SpecInitDb == InitInitDb /\ [][NextInitDb]_vars

(***************************************************************************)
(* app/blockchain.py update_blockchain_mode and app/main.py get_price.     *)
(* main.py binds its own name blockchain when it is imported; the update   *)
(* assigns the global of app/blockchain.py.                                *)
(***************************************************************************)
MaxModeCalls == 3

\* GET /price queries that pass the Query(...) constraints
PriceQueries ==
    {r \in ResolveRequests : r.supply > 0 /\ r.base_price = 100
                                /\ r.demand \in {0, 11, 150}}

\* get_price, with `self` the instance the name blockchain of main.py holds
get_price(self, query, remote) ==
    LET valid == validate_inputs(query.supply, query.demand, query.base_price)
    IN  IF ~valid[1]
        THEN [status_code |-> 400, detail |-> valid[2]]
        ELSE LET contract_result ==
                     ContractIntegration_calculate_price(
                         self, query.supply, query.demand, query.base_price,
                         query.region, remote).ret
             IN  [region |-> query.region,
                  base_price |-> query.base_price,
                  supply |-> query.supply,
                  demand |-> query.demand,
                  final_price |-> contract_result.final_price,
                  reason |-> contract_result.reason,
                  method |-> "rule_based",
                  ai_used |-> FALSE]

\* both names hold the instance made at import: ContractIntegration(REAL)
InitModes ==
    /\ endpoint = "none"
    /\ request = None
    /\ response = None
    /\ config \in {[mode |-> REAL, env |-> env] : env \in Environments}
    /\ blockchain = ContractIntegration(config.mode, config.env)
    /\ blockchain_global = blockchain
    /\ net \in {n \in Nets : n.stylus = n.solidity}
    /\ stages = <<>>
    /\ calls = <<>>
    /\ threads = <<>>
    /\ users = NoDatabase

\* global blockchain; blockchain = ContractIntegration(mode=mode)
UpdateBlockchainMode ==
    /\ Len(calls) < MaxModeCalls
    /\ \E mode \in {MOCK, REAL} :
          /\ blockchain_global' = ContractIntegration(mode, config.env)
          /\ request' = mode
          /\ calls' = Append(calls, [endpoint |-> "update_blockchain_mode",
                                     request |-> mode, response |-> None,
                                     blockchain_global |-> blockchain_global'])
    /\ endpoint' = "update_blockchain_mode"
    /\ response' = None
    /\ UNCHANGED <<config, blockchain, net, stages, threads, users>>

\* GET /price: contract_result = blockchain.calculate_price(...)
GetPrice ==
    /\ Len(calls) < MaxModeCalls
    /\ \E query \in PriceQueries :
          \E out \in {get_price(blockchain, query, net)} :
              /\ request' = query
              /\ response' = out
              /\ calls' = Append(calls, [endpoint |-> "get_price",
                                         request |-> query, response |-> out,
                                         blockchain_global |-> blockchain_global])
    /\ endpoint' = "get_price"
    /\ UNCHANGED <<config, blockchain, blockchain_global, net, stages, threads,
                   users>>

NextModes == UpdateBlockchainMode \/ GetPrice

SpecModes == InitModes /\ [][NextModes]_vars

(***************************************************************************)
(* Exact arithmetic the properties are stated in: the rules over the       *)
(* rationals, with no float in them.                                       *)
(***************************************************************************)
ExactMultiplier(supply, demand) ==
    IF 100 * demand > 130 * supply THEN 115
    ELSE IF 100 * demand > 110 * supply THEN 108
    ELSE IF 100 * demand < 80 * supply THEN 90
    ELSE 100

ExactTierNumber(supply, demand) ==
    CASE ExactMultiplier(supply, demand) = 115 -> 1
      [] ExactMultiplier(supply, demand) = 108 -> 2
      [] ExactMultiplier(supply, demand) = 100 -> 3
      [] ExactMultiplier(supply, demand) = 90 -> 4

TierReason(multiplier) ==
    CASE multiplier = 115 -> "Critical shortage (ratio > 1.30)"
      [] multiplier = 108 -> "Shortage detected (ratio > 1.10)"
      [] multiplier = 100 -> "Balanced supply-demand (0.80-1.10)"
      [] multiplier = 90 -> "Surplus available (ratio < 0.80)"

\* n / d rounded to the nearest integer, ties to even (n >= 0, d > 0)
RoundHalfEven(n, d) ==
    LET q == n \div d
        r == n % d
    IN  IF 2 * r > d THEN q + 1
        ELSE IF 2 * r < d THEN q
        ELSE IF q % 2 = 0 THEN q ELSE q + 1

Evaluated == endpoint = "evaluate" /\ request.supply > 0
V1Accepted ==
    /\ endpoint = "v1"
    /\ PriceRequest(request)
    /\ request.season_factor # None
Resolved == endpoint = "resolve"

\* C1: for every validated input, every mode and configuration and every
\* behaviour of the remote side, ContractIntegration.calculate_price returns
\* a dict with a final_price; no exception reaches the caller.
C1_ResolveAlwaysReturnsAPrice ==
    Resolved =>
        /\ "exception" \notin DOMAIN response
        /\ "final_price" \in DOMAIN response
        /\ response.final_price \in Nat

\* both contracts fail in REAL mode and the caller still gets a price
C1_Witness ==
    /\ Resolved
    /\ blockchain.mode = REAL
    /\ net.stylus.kind = "error"
    /\ net.solidity.kind = "bad_reply"
    /\ stages = <<"stylus", "solidity", "fallback">>
    /\ response.final_price = request.base_price

\* C2 (as claimed): in REAL mode, when the Solidity call fails (the Stylus
\* call having failed or being absent), the local rules are applied and their
\* tier-adjusted price is returned, not tagged as a fallback.
C2_LocalRulesAfterStandardFails ==
    ( /\ Resolved
      /\ blockchain.mode = REAL
      /\ request.supply > 0
      /\ "solidity" \in {stages[i] : i \in DOMAIN stages}
      /\ (~net.web3 \/ net.solidity.kind \in {"bad_reply", "error", "disconnected"}) )
    => /\ response.source # "fallback"
       /\ response.final_price =
              MockPricedDecision(blockchain, request.supply, request.demand,
                                 request.base_price, request.region).ret.final_price

\* C3 (as claimed): in REAL mode with both contracts configured, whenever the
\* Stylus call fails for any reason and the Solidity call would succeed, the
\* Solidity result is returned, tagged smart_contract_solidity.
C3_StandardAnswersWhenFastFails ==
    ( /\ Resolved
      /\ blockchain.mode = REAL
      /\ blockchain.use_stylus_pricing
      /\ blockchain.pricing_contract_address # ""
      /\ net.web3
      /\ net.stylus.kind \in {"bad_reply", "error", "disconnected"}
      /\ net.solidity.kind = "ok" )
    => /\ response.source = "smart_contract_solidity"
       /\ response.final_price = net.solidity.reply.final_price

\* C4: for supply > 0 and demand >= 0, calculate_price applies exactly the
\* multiplier the strict comparisons give over the rationals: ratio > 1.30
\* gives 1.15, else ratio > 1.10 gives 1.08, else ratio < 0.80 gives 0.90,
\* else 1.0 (so 1.10 and 0.80 are Balanced and 1.30 is Shortage).
C4_TierByStrictComparisons ==
    Evaluated =>
        /\ response.multiplier = ExactMultiplier(request.supply, request.demand)
        /\ response.reason \in
               {TierReason(response.multiplier),
                TierReason(response.multiplier) \o " [CAPPED at +50%]",
                TierReason(response.multiplier) \o " [FLOORED at -30%]"}

\* the three boundary ratios: 11/10 is Balanced
C4_Witness ==
    /\ Evaluated
    /\ request.supply = 10
    /\ request.demand = 11
    /\ response.multiplier = 100

\* C5: for supply > 0 and a season factor in [0.5, 2.0],
\* floor(base_price * 0.70) <= suggested_price <= round(base_price * 1.50).
C5_PriceWithinRoundedLimits ==
    (Evaluated /\ request.season_factor \in 50..200) =>
        /\ (request.base_price * 70) \div 100 <= response.suggested_price
        /\ response.suggested_price <= RoundHalfEven(request.base_price * 150, 100)

\* a price capped at the upper limit of a base price whose limit is no integer
C5_Witness ==
    /\ Evaluated
    /\ request.base_price = 45
    /\ request.season_factor = 200
    /\ response.is_capped
    /\ response.suggested_price = 68

\* C6 (as claimed): when REAL mode is requested and no remote source is
\* available, the decision returned for a valid input has the final price and
\* the is_capped of the rule engine's calculate_price for the same input
\* (season factor at its default 1.0), and is tagged as computed locally.
C6_NoRemoteEqualsRuleEngine ==
    ( /\ Resolved
      /\ config.mode = REAL
      /\ ~blockchain.contracts_available
      /\ request.supply > 0 )
    => LET rule == calculate_price(request.supply, request.demand,
                                   request.base_price, 100)
       IN  /\ response.source = "mock_pricing"
           /\ response.final_price = rule.suggested_price
           /\ response.is_capped = rule.is_capped

\* C7: is_capped is true exactly when base_price * multiplier * season_factor
\* lies strictly outside [base_price * 0.70, base_price * 1.50]; then the
\* price before rounding is the violated bound and the reason carries the
\* matching note; otherwise price and reason are those of the tier.
C7_CappedExactlyOutsideLimits ==
    Evaluated =>
        LET m     == response.multiplier
            b     == request.base_price
            above == m * request.season_factor > 150 * 100
            below == m * request.season_factor < 70 * 100
            raw   == FloatMul(FloatMul(FloatOfInt(b), FloatDiv(m, 100)),
                              SeasonFloat(request.season_factor))
            floor == FloatMul(FloatOfInt(b), MAX_PRICE_DECREASE)
        IN  /\ response.is_capped = (above \/ below)
            /\ above =>
                   /\ response.suggested_price = RoundHalfEven(b * 150, 100)
                   /\ response.calculations.price_formula[4] = (b * 150) \div 100
                   /\ response.reason = TierReason(m) \o " [CAPPED at +50%]"
            /\ below =>
                   /\ response.suggested_price = PyRound(floor)
                   /\ response.calculations.price_formula[4] = FloatInt(floor)
                   /\ response.reason = TierReason(m) \o " [FLOORED at -30%]"
            /\ ~(above \/ below) =>
                   /\ response.suggested_price = PyRound(raw)
                   /\ response.calculations.price_formula[4] = FloatInt(raw)
                   /\ response.reason = TierReason(m)

\* base 10000, critical shortage, season factor 1.4: 16100 is capped to 15000
C7_Witness ==
    /\ Evaluated
    /\ request = [supply |-> 100, demand |-> 150, base_price |-> 10000,
                  season_factor |-> 140]
    /\ response.is_capped
    /\ response.suggested_price = 15000

\* C8: calculate_price(0, 0, B, any season factor) returns price B, no ratio,
\* multiplier 1.0 and is_capped false, and raises nothing.
C8_ZeroSupplyReturnsBasePrice ==
    (endpoint = "evaluate" /\ request.supply = 0 /\ request.demand = 0) =>
        /\ "exception" \notin DOMAIN response
        /\ response.suggested_price = request.base_price
        /\ response.ratio = None
        /\ response.multiplier = 100
        /\ response.is_capped = FALSE

C8_Witness ==
    /\ endpoint = "evaluate"
    /\ request = [supply |-> 0, demand |-> 0, base_price |-> 10000,
                  season_factor |-> 200]
    /\ response.suggested_price = 10000

\* the scenarios of test_pricing_scenarios, with the prices the spec gives
Scenarios ==
    {<<100, 120, 10800>>, <<100, 150, 11500>>, <<100, 100, 10000>>,
     <<200, 100, 9000>>, <<100, 300, 11500>>}

\* C9: with season factor 1.0 and a base price that is a multiple of 100 the
\* v1 endpoint returns exactly base * 1.15 (tier 1, +15), base * 1.08 (tier 2,
\* +8), base (tier 3, 0) or base * 0.90 (tier 4, -10), never capped, and the
\* five scenarios give 10800, 11500, 10000, 9000 and 11500.
C9_TierPricesAreExact ==
    (V1Accepted /\ request.season_factor = 100 /\ request.base_price % 100 = 0) =>
        LET m == ExactMultiplier(request.supply, request.demand)
        IN  /\ response.success
            /\ response.data.final_price = (request.base_price \div 100) * m
            /\ response.data.pricing_tier =
                   ExactTierNumber(request.supply, request.demand)
            /\ response.data.adjustment_percent = m - 100
            /\ response.data.explanation = TierReason(m)
            /\ \A sc \in Scenarios :
                   (request.supply = sc[1] /\ request.demand = sc[2]
                        /\ request.base_price = 10000)
                   => response.data.final_price = sc[3]

C9_Witness ==
    /\ V1Accepted
    /\ request = [supply |-> 100, demand |-> 120, base_price |-> 10000,
                  season_factor |-> 100]
    /\ response.data.final_price = 10800
    /\ response.data.pricing_tier = 2
    /\ response.data.adjustment_percent = 8

V1Compared(out) ==
    IF "data" \in DOMAIN out
    THEN <<out.data.final_price, out.data.pricing_tier,
           out.data.adjustment_percent>>
    ELSE out

Validated == endpoint = "validate"

\* C12: validate_inputs answers (False, message) exactly when base_price <= 0
\* or supply < 0 or demand < 0 or (supply = 0 and demand > 0), and (True, "")
\* otherwise, supply = 0 with demand = 0 included; the values it was given
\* are the ones the caller still holds.
C12_ValidateInputsRejectsExactly ==
    Validated =>
        LET invalid ==
                \/ request.base_price <= 0
                \/ request.supply < 0
                \/ request.demand < 0
                \/ (request.supply = 0 /\ request.demand > 0)
        IN  /\ response[1] = ~invalid
            /\ invalid => response[2] # ""
            /\ ~invalid => response = <<TRUE, "">>

\* an empty market with no demand is accepted
C12_Witness ==
    /\ Validated
    /\ request.supply = 0
    /\ request.demand = 0
    /\ request.base_price > 0
    /\ response = <<TRUE, "">>

Visited(stage) == \E i \in DOMAIN stages : stages[i] = stage

\* C13: in MOCK mode a call of ContractIntegration.calculate_price attempts
\* neither contract; it is answered by the local computation, and under
\* every behaviour of the remote side the answer is the one given when both
\* contract calls fail.
C13_MockNeverGoesRemote ==
    (Resolved /\ blockchain.mode = MOCK) =>
        /\ stages[1] = "mock"
        /\ ~Visited("stylus")
        /\ ~Visited("solidity")
        /\ ContractIntegration_calculate_price(
               blockchain, request.supply, request.demand,
               request.base_price, request.region, QuietNet).ret = response

\* MOCK mode with both contracts configured and ready to answer
C13_Witness ==
    /\ Resolved
    /\ config.mode = MOCK
    /\ blockchain.contracts_available
    /\ blockchain.use_stylus_pricing
    /\ net.stylus.kind = "ok"
    /\ net.solidity.kind = "ok"
    /\ stages = <<"mock">>
    /\ response.source = "mock_pricing"

\* a price inside [base_price * 0.70, base_price * 1.50]
InContract(price, base_price) ==
    /\ 100 * price >= 70 * base_price
    /\ 100 * price <= 150 * base_price

\* C14 (as claimed): a call never raises, and a price a contract answered is
\* returned only when it lies inside [base_price * 0.70, base_price * 1.50];
\* an answer that is malformed or outside these limits is passed over for the
\* next source.
C14_OutOfContractPriceRejected ==
    Resolved =>
        /\ "exception" \notin DOMAIN response
        /\ response.source \in {"smart_contract_stylus", "smart_contract_solidity"}
               => InContract(response.final_price, request.base_price)

\* the static table, keyed by names already in lower case with underscores
RegionTable(key) ==
    CASE key = <<"m", "i", "n", "a", "h", "a", "s", "a", "_",
                 "s", "e", "l", "a", "t", "a", "n">> -> 10500
      [] key = <<"j", "a", "v", "a">> -> 9800
      [] key = <<"s", "u", "m", "a", "t", "r", "a">> -> 10200
      [] OTHER -> 10000

\* the spellings of the model that name a table entry once lower-cased and
\* with each space turned into an underscore
NormalisedRegion(region) ==
    CASE region \in {<<"J", "a", "v", "a">>, <<"j", "a", "v", "a">>,
                     <<"J", "A", "V", "A">>} -> <<"j", "a", "v", "a">>
      [] region = <<"S", "u", "m", "a", "t", "r", "a">>
             -> <<"s", "u", "m", "a", "t", "r", "a">>
      [] region \in {<<"M", "i", "n", "a", "h", "a", "s", "a", " ",
                       "S", "e", "l", "a", "t", "a", "n">>,
                     <<"m", "i", "n", "a", "h", "a", "s", "a", "_",
                       "s", "e", "l", "a", "t", "a", "n">>}
             -> <<"m", "i", "n", "a", "h", "a", "s", "a", "_",
                  "s", "e", "l", "a", "t", "a", "n">>
      [] OTHER -> <<"o", "t", "h", "e", "r">>

\* C15: get_base_price raises in no mode; with the region contract failing
\* (it always does) or in MOCK mode it returns the table entry of the region
\* name lower-cased with spaces replaced by underscores, and 10000 for a name
\* that is not in the table.
C15_BasePriceFromStaticTable ==
    endpoint = "get_base_price" =>
        /\ response \in Nat
        /\ response = RegionTable(NormalisedRegion(request.region))

\* REAL mode with contracts available: the region contract call raises and
\* the table answers for a name written with capitals and a space
C15_Witness ==
    /\ endpoint = "get_base_price"
    /\ blockchain.mode = REAL
    /\ blockchain.contracts_available
    /\ request.region = <<"M", "i", "n", "a", "h", "a", "s", "a", " ",
                          "S", "e", "l", "a", "t", "a", "n">>
    /\ response = 10500

\* the remote price source calculate_price asks first
PreferredSource(self) ==
    IF self.mode = REAL /\ self.contracts_available
    THEN IF self.use_stylus_pricing THEN "stylus" ELSE "solidity"
    ELSE "none"

\* C16 (as claimed): health_check reports the effective mode and whether
\* contracts are configured, and tells which remote price source is
\* preferred: two resolvers that prefer different sources never give the same
\* report.
C16_HealthTellsPreferredSource ==
    endpoint = "health_check" =>
        /\ response.mode = blockchain.mode
        /\ response.contracts_deployed = blockchain.contracts_available
        /\ \A other \in [mode : {MOCK, REAL}, env : Environments] :
               LET resolver == ContractIntegration(other.mode, other.env)
               IN  health_check(resolver) = response
                       => PreferredSource(resolver) = PreferredSource(blockchain)

\* C17: however calls of calculate_price on the same instance interleave,
\* each returns what the call returns when run alone on the instance as it
\* was constructed, with the same input and the same answers from the remote
\* side, and the instance's mode, contracts_available and addresses stay as
\* constructed.
C17_ConcurrentCallsAreIndependent ==
    /\ blockchain = ContractIntegration(config.mode, config.env)
    /\ \A t \in Threads :
           threads[t].pc = "done" =>
               LET alone == ContractIntegration_calculate_price(
                                ContractIntegration(config.mode, config.env),
                                threads[t].request.supply,
                                threads[t].request.demand,
                                threads[t].request.base_price,
                                threads[t].request.region, threads[t].net)
               IN  /\ threads[t].ret = alone.ret
                   /\ threads[t].stages = alone.stages

\* one call has failed on Stylus and gone on to Solidity while the other,
\* started before the first finished, is answered by Stylus
C17_Witness ==
    /\ threads["t1"].pc = "done"
    /\ threads["t1"].stages = <<"stylus", "solidity">>
    /\ threads["t2"].pc = "stylus"
    /\ threads["t2"].net.stylus.kind = "ok"
    /\ threads["t1"].request # threads["t2"].request

\* C18 (as claimed): after any sequence of register_user calls no two rows
\* of users have the same phone, and every call made with a phone that was
\* already in the table returned success False with "Phone number already
\* registered" and left the rows as they were.
C18_PhonesStayUnique ==
    /\ \A i, j \in DOMAIN users.users :
           users.users[i].phone = users.users[j].phone => i = j
    /\ \A k \in DOMAIN calls :
           (\E i \in DOMAIN calls[k].before :
                calls[k].before[i].phone = calls[k].request.phone) =>
               /\ calls[k].response =
                      [success |-> FALSE,
                       message |-> "Phone number already registered"]
               /\ calls[k].after = calls[k].before

\* the position of a stage in the order fast remote, standard remote, local
\* computation, static fallback
StageRank(stage) ==
    CASE stage = "stylus" -> 1
      [] stage = "solidity" -> 2
      [] stage = "mock" -> 3
      [] stage = "fallback" -> 4

\* C19: the stages one call of calculate_price goes through are in the order
\* Stylus, Solidity, local computation, base-price fallback, each at most
\* once: every stage comes strictly later in that order than the stage before
\* it, so Stylus is never asked again after it has failed.
C19_StagesStrictlyForward ==
    Resolved =>
        /\ stages # <<>>
        /\ \A i \in DOMAIN stages :
               stages[i] \in {"stylus", "solidity", "mock", "fallback"}
        /\ \A i, j \in DOMAIN stages :
               i < j => StageRank(stages[i]) < StageRank(stages[j])

\* the longest walk of the code: Stylus raises, Solidity raises, base price
C19_Witness ==
    /\ Resolved
    /\ net.web3
    /\ net.stylus.kind = "bad_reply"
    /\ net.solidity.kind = "error"
    /\ blockchain.use_stylus_pricing
    /\ stages = <<"stylus", "solidity", "fallback">>
    /\ response.reason = "CONTRACT_CALL_FAILED"

\* C20 (as claimed): on a resolver constructed in REAL mode, a call goes
\* straight to the local computation only when neither pricing address
\* (Stylus, Solidity) is configured; with at least one of them configured a
\* contract is asked before anything local is returned.
C20_RemoteAskedWheneverConfigured ==
    (Resolved /\ config.mode = REAL) =>
        IF blockchain.pricing_stylus_address # ""
               \/ blockchain.pricing_contract_address # ""
        THEN stages[1] \in {"stylus", "solidity"}
        ELSE stages[1] = "mock"

LastStage == stages[Len(stages)]

\* C21: the source of a returned decision names the stage its final_price
\* comes from.  "smart_contract_stylus" (or "..._solidity") is returned only
\* when that contract answered during this call, as the last stage visited,
\* with the price it answered; a price from the local calculation is tagged
\* "mock_pricing"; the base price handed back by the fallback, and only
\* that, is tagged "fallback".
C21_SourceNamesTheStage ==
    Resolved =>
        /\ response.source \in {"smart_contract_stylus", "smart_contract_solidity",
                                "mock_pricing", "fallback"}
        /\ response.source = "smart_contract_stylus" =>
               /\ LastStage = "stylus"
               /\ net.stylus.kind = "ok"
               /\ response.final_price = net.stylus.reply.final_price
        /\ response.source = "smart_contract_solidity" =>
               /\ LastStage = "solidity"
               /\ net.solidity.kind = "ok"
               /\ response.final_price = net.solidity.reply.final_price
        /\ LastStage = "mock" <=> response.source = "mock_pricing"
        /\ LastStage = "fallback" <=> response.source = "fallback"
        /\ response.source = "fallback" =>
               response.final_price = request.base_price

\* Stylus raises, Solidity answers: the decision carries the Solidity tag
C21_Witness ==
    /\ Resolved
    /\ net.stylus.kind = "error"
    /\ net.solidity.kind = "ok"
    /\ stages = <<"stylus", "solidity">>
    /\ response.source = "smart_contract_solidity"
    /\ response.final_price = net.solidity.reply.final_price

\* the names under which a decision of calculate_price carries a value,
\* at the top of the dict or in its 'calculations' record
AuditKeys == DOMAIN response \cup DOMAIN response.calculations

\* C22 (as claimed): for supply > 0 the decision of calculate_price records
\* base_price, supply, demand, season_factor, the ratio, the multiplier, the
\* ratio and price formulas, and both clamp bounds, min_allowed and
\* max_allowed.
C22_AuditHasClampBounds ==
    Evaluated =>
        {"base_price", "supply", "demand", "season_factor", "ratio",
         "multiplier", "ratio_formula", "price_formula",
         "min_allowed", "max_allowed"} \subseteq AuditKeys

\* C23 (as claimed): for supply > 0 the result at the end of price_formula is
\* the suggested_price of the same decision, and when the price was not
\* capped it is base_price * multiplier * season_factor rounded to the
\* nearest integer (multiplier and season_factor in hundredths).
C23_PriceFormulaShowsThePrice ==
    Evaluated =>
        LET shown == response.calculations.price_formula[4]
            exact == request.base_price * response.multiplier
                         * request.season_factor
            diff  == 10000 * shown - exact
        IN  /\ shown = response.suggested_price
            /\ ~response.is_capped => (2 * diff <= 10000 /\ 2 * diff >= -10000)

\* the multiplier (in hundredths) each tier name stands for
TierMultiplier(tier) ==
    CASE tier = "critical_shortage" -> 115
      [] tier = "shortage" -> 108
      [] tier = "balanced" -> 100
      [] tier = "surplus" -> 90
      [] OTHER -> 0

\* C24: for supply > 0 and demand >= 0 the tier get_supply_demand_ratio
\* reports is the tier of the multiplier calculate_price applies to the same
\* pair (critical_shortage 1.15, shortage 1.08, balanced 1.0, surplus 0.90),
\* and the pricing_tier of a v1 answer is the number of the tier whose
\* multiplier priced its final_price.
C24_TierMatchesMultiplier ==
    /\ Evaluated =>
           TierMultiplier(get_supply_demand_ratio(request.supply,
                                                  request.demand).tier)
               = response.multiplier
    /\ (V1Accepted /\ response.success) =>
           LET applied == calculate_price(request.supply, request.demand,
                                          request.base_price,
                                          request.season_factor).multiplier
           IN  /\ response.data.pricing_tier
                      = tier_map(CHOOSE tier \in {"critical_shortage", "shortage",
                                                  "balanced", "surplus"} :
                                     TierMultiplier(tier) = applied)
               /\ response.data.final_price
                      = calculate_price(request.supply, request.demand,
                                        request.base_price,
                                        request.season_factor).suggested_price

\* a v1 answer for a ratio of exactly 1.30: tier 2, not 1
C24_Witness ==
    /\ V1Accepted
    /\ response.success
    /\ request.supply = 10
    /\ request.demand = 13
    /\ response.data.pricing_tier = 2

\* the delivery with this id is in the table with status 'completed'
Completed(db, delivery_id) ==
    \E i \in DOMAIN db.deliveries :
        /\ db.deliveries[i].id = delivery_id
        /\ db.deliveries[i].status = "completed"

\* C26 (as claimed): a call of complete_delivery on a delivery that is
\* already completed leaves the points of every user as they were, so the
\* 15 points of a delivery are awarded at most once.
C26_PointsAwardedOncePerDelivery ==
    \A k \in DOMAIN calls :
        (calls[k].endpoint = "complete_delivery"
            /\ Completed(calls[k].before, calls[k].request)) =>
            calls[k].after.users = calls[k].before.users

\* C27 (as claimed): however concurrent first init_db calls interleave, no
\* init_db call raises, all four tables exist once any call has returned,
\* and no later register_user fails for a missing table.
C27_ConcurrentInitDbIsSafe ==
    /\ \A t \in DOMAIN threads : threads[t].pc # "raised"
    /\ (\E t \in DOMAIN threads : threads[t].pc \in {"returned", "done"})
           => users.tables = Tables
    /\ \A t \in DOMAIN threads :
           threads[t].pc = "done"
               => threads[t].result # "Registration error: no such table: users"

\* C28 (as claimed): once update_blockchain_mode(m) has returned, every
\* GET /price is answered as the integration the update created answers it,
\* not as the instance that was there before.
C28_PriceUsesTheUpdatedIntegration ==
    \A k \in DOMAIN calls :
        (calls[k].endpoint = "get_price"
            /\ \E j \in 1 .. (k - 1) :
                   calls[j].endpoint = "update_blockchain_mode") =>
            calls[k].response =
                get_price(calls[k].blockchain_global, calls[k].request, net)

\* C29: for a fixed supply > 0, base_price > 0 and season_factor in
\* [0.5, 2.0], the price calculate_price suggests never goes down when the
\* demand goes up: every smaller demand validate_inputs accepts (0 or more)
\* is priced at most as high.
C29_PriceMonotoneInDemand ==
    (Evaluated /\ request.base_price > 0
               /\ request.season_factor \in 50 .. 200) =>
        \A demand1 \in Demands :
            (0 <= demand1 /\ demand1 <= request.demand) =>
                calculate_price(request.supply, demand1, request.base_price,
                                request.season_factor).suggested_price
                    <= response.suggested_price

\* a demand in the critical tier priced above a smaller demand in the
\* surplus tier, with the same supply, base price and season
C29_Witness ==
    /\ Evaluated
    /\ request.supply = 100
    /\ request.demand = 150
    /\ request.base_price = 100
    /\ request.season_factor = 100
    /\ response.suggested_price = 115
    /\ calculate_price(100, 79, 100, 100).suggested_price = 90

\* C30: after construction with any requested mode and any configuration of
\* addresses, mode = REAL implies contracts_available (a REAL request with
\* no contracts available is downgraded to MOCK), so the ready flag of
\* health_check is true exactly when the effective mode is REAL.
C30_RealModeHasContracts ==
    /\ blockchain.mode = REAL => blockchain.contracts_available
    /\ (config.mode = REAL /\ ~blockchain.contracts_available)
           => blockchain.mode = MOCK
    /\ endpoint = "health_check" =>
           (response.ready <=> blockchain.mode = REAL)

\* REAL requested with the Solidity addresses set to "" and no Stylus
\* address: the instance is in MOCK mode and health_check says not ready
C30_Witness ==
    /\ endpoint = "health_check"
    /\ config.mode = REAL
    /\ ~blockchain.contracts_available
    /\ blockchain.mode = MOCK
    /\ response.ready = FALSE

====
